---- MODULE Spec2Model ----
(***************************************************************************)
(* Model of src/vs/workbench/services/textMate/electron-browser/           *)
(* textMateService.ts: the per-buffer ModelWorkerTextMateTokenizer and     *)
(* the TextMateService that owns the worker, the worker proxy and the      *)
(* uri -> tokenizer map.                                                   *)
(*                                                                         *)
(* The host is single threaded: every handler runs to completion, so each  *)
(* handler is one action.  The only asynchronous step is the resolution of *)
(* worker.getProxy(), which is an action of its own (ProxyResolved).       *)
(*                                                                         *)
(* Messages to the worker are fire-and-forget calls on the proxy; the      *)
(* model records them, in the order of the calls, in the log "sent".       *)
(***************************************************************************)
EXTENDS Integers, Sequences, FiniteSets, TLC

\* ---------------------------------------------------------------- bounds
NumURIs == 2          \* buffers (uris) the registry can hold
NumEditedURIs == 1    \* content and language events are explored on uris 1..NumEditedURIs
MaxVersion == 3       \* a model's version id stays within 1..MaxVersion
MaxWorkers == 2       \* workers created in one behaviour
MaxTokenizers == 2    \* tokenizer objects constructed in one behaviour
MaxSent == 3          \* calls made on worker proxies in one behaviour

URIs == 1..NumURIs
LanguageIds == {1, 2}

VARIABLES
    RUN_TEXTMATE_IN_WORKER, \* the module flag of line 24 (fixed at start)
    registry,               \* IModelService.getModels(): the uris of its models
    models,                 \* uri -> the ITextModel's observable fields
    _worker,                \* TextMateService._worker (0 = null)
    _workerProxy,           \* TextMateService._workerProxy (0 = null)
    _tokenizers,            \* TextMateService._tokenizers: uri -> object id (0 = none)
    tokenizers,             \* every ModelWorkerTextMateTokenizer ever constructed
    workers,                \* every worker ever created by createWebWorker
    sent                    \* the calls made on worker proxies, in order

vars == <<RUN_TEXTMATE_IN_WORKER, registry, models, _worker, _workerProxy,
          _tokenizers, tokenizers, workers, sent>>

\* ------------------------------------------------------------- helpers
Range(s) == {s[i] : i \in DOMAIN s}

RECURSIVE Flatten(_)
Flatten(ss) == IF ss = <<>> THEN <<>> ELSE Head(ss) \o Flatten(Tail(ss))

\* A model that is not in the registry (canonical value of an unused slot).
NoModel == [attached |-> FALSE, tooLarge |-> FALSE, versionId |-> 0, languageId |-> 1]

\* ---------------------------------------------------- worker messages
AcceptNewModel(w, u, m) ==
    [op |-> "acceptNewModel", worker |-> w, uri |-> u,
     versionId |-> m.versionId, languageId |-> m.languageId]

AcceptModelChanged(w, u, m) ==
    [op |-> "acceptModelChanged", worker |-> w, uri |-> u,
     versionId |-> m.versionId, languageId |-> 0]

AcceptModelLanguageChanged(w, u, m) ==
    [op |-> "acceptModelLanguageChanged", worker |-> w, uri |-> u,
     versionId |-> 0, languageId |-> m.languageId]

AcceptRemovedModel(w, u) ==
    [op |-> "acceptRemovedModel", worker |-> w, uri |-> u,
     versionId |-> 0, languageId |-> 0]

\* ------------------------------------- ModelWorkerTextMateTokenizer
\* A handler maps the tokenizer object t (and its model m) to the object
\* after the call and the messages the call sent.
BeginSync(t, m) ==
    [tok |-> [t EXCEPT !.isSynced = TRUE],
     out |-> <<AcceptNewModel(t.worker, t.uri, m)>>]

\* Variant: _endSync clears _isSynced.
EndSync_ResetsFlag(t) ==
    [tok |-> [t EXCEPT !.isSynced = FALSE],
     out |-> <<AcceptRemovedModel(t.worker, t.uri)>>]

EndSync(t) ==
    [tok |-> t, out |-> <<AcceptRemovedModel(t.worker, t.uri)>>]

\* Variant: the detach branch calls _endSync without looking at _isSynced.
OnDidChangeAttached_DetachUnguarded(t, m) ==
    IF m.attached
    THEN IF ~t.isSynced THEN BeginSync(t, m) ELSE [tok |-> t, out |-> <<>>]
    ELSE EndSync(t)

OnDidChangeAttached(t, m) ==
    IF m.attached
    THEN IF ~t.isSynced THEN BeginSync(t, m) ELSE [tok |-> t, out |-> <<>>]
    ELSE IF t.isSynced THEN EndSync(t) ELSE [tok |-> t, out |-> <<>>]

\* Variant: the guard of line 42 inverted.
OnDidChangeContent_GuardInverted(t, m) ==
    IF ~t.isSynced
    THEN [tok |-> t, out |-> <<AcceptModelChanged(t.worker, t.uri, m)>>]
    ELSE [tok |-> t, out |-> <<>>]

OnDidChangeContent(t, m) ==
    IF t.isSynced
    THEN [tok |-> t, out |-> <<AcceptModelChanged(t.worker, t.uri, m)>>]
    ELSE [tok |-> t, out |-> <<>>]

OnDidChangeLanguage(t, m) ==
    IF t.isSynced
    THEN [tok |-> t, out |-> <<AcceptModelLanguageChanged(t.worker, t.uri, m)>>]
    ELSE [tok |-> t, out |-> <<>>]

\* Variant: dispose() without the call of _endSync().
Dispose_NoRemoval(t) ==
    [tok |-> [t EXCEPT !.disposed = @ + 1], out |-> <<>>]

\* Variant: dispose() sends the removal only when _isSynced is set.
Dispose_OnlyWhenSynced(t) ==
    [tok |-> [t EXCEPT !.disposed = @ + 1],
     out |-> IF t.isSynced THEN EndSync(t).out ELSE <<>>]

\* dispose(): super.dispose() drops the three listeners (disposed > 0 means
\* no listener is left), then _endSync() runs unconditionally.
Dispose(t) ==
    [tok |-> [EndSync(t).tok EXCEPT !.disposed = @ + 1],
     out |-> EndSync(t).out]

\* constructor: _isSynced = false, then the first _onDidChangeAttached().
NewTokenizer(w, u, m) ==
    OnDidChangeAttached([uri |-> u, worker |-> w, isSynced |-> FALSE, disposed |-> 0], m)

\* The listeners of tokenizer t are registered on the model with uri u.
Listening(t, u) == t.uri = u /\ t.disposed = 0

\* ------------------------------------------------------ TextMateService
\* The part of the service the handlers below change.
Svc == [map |-> _tokenizers, toks |-> tokenizers, sent |-> sent]

\* A model event reaches every tokenizer whose listeners are registered.
FireAttached(s, u, m) ==
    [map  |-> s.map,
     toks |-> [i \in DOMAIN s.toks |->
                 IF Listening(s.toks[i], u) THEN OnDidChangeAttached(s.toks[i], m).tok
                                            ELSE s.toks[i]],
     sent |-> s.sent \o Flatten([i \in DOMAIN s.toks |->
                 IF Listening(s.toks[i], u) THEN OnDidChangeAttached(s.toks[i], m).out
                                            ELSE <<>>])]

FireContent(s, u, m) ==
    [map  |-> s.map,
     toks |-> [i \in DOMAIN s.toks |->
                 IF Listening(s.toks[i], u) THEN OnDidChangeContent(s.toks[i], m).tok
                                            ELSE s.toks[i]],
     sent |-> s.sent \o Flatten([i \in DOMAIN s.toks |->
                 IF Listening(s.toks[i], u) THEN OnDidChangeContent(s.toks[i], m).out
                                            ELSE <<>>])]

FireLanguage(s, u, m) ==
    [map  |-> s.map,
     toks |-> [i \in DOMAIN s.toks |->
                 IF Listening(s.toks[i], u) THEN OnDidChangeLanguage(s.toks[i], m).tok
                                            ELSE s.toks[i]],
     sent |-> s.sent \o Flatten([i \in DOMAIN s.toks |->
                 IF Listening(s.toks[i], u) THEN OnDidChangeLanguage(s.toks[i], m).out
                                            ELSE <<>>])]

\* Variant: _onModelAdded without the check of this._workerProxy.
OnModelAdded_NoProxyCheck(s, u, m, proxy) ==
    IF m.tooLarge THEN s
    ELSE [map  |-> [s.map EXCEPT ![u] = Len(s.toks) + 1],
          toks |-> Append(s.toks, NewTokenizer(proxy, u, m).tok),
          sent |-> s.sent \o NewTokenizer(proxy, u, m).out]

\* Variant: _onModelAdded without the isTooLargeForSyncing() check.
OnModelAdded_NoSizeCheck(s, u, m, proxy) ==
    IF proxy = 0 THEN s
    ELSE [map  |-> [s.map EXCEPT ![u] = Len(s.toks) + 1],
          toks |-> Append(s.toks, NewTokenizer(proxy, u, m).tok),
          sent |-> s.sent \o NewTokenizer(proxy, u, m).out]

\* _onModelAdded(model), with proxy the value of this._workerProxy.
OnModelAdded(s, u, m, proxy) ==
    IF proxy = 0 THEN s
    ELSE IF m.tooLarge THEN s
    ELSE [map  |-> [s.map EXCEPT ![u] = Len(s.toks) + 1],
          toks |-> Append(s.toks, NewTokenizer(proxy, u, m).tok),
          sent |-> s.sent \o NewTokenizer(proxy, u, m).out]

\* Variant: _onModelRemoved disposes the tokenizer's listeners only (the
\* base class dispose), so no removal is sent.
OnModelRemoved_NoRemoval(s, u) ==
    IF s.map[u] # 0
    THEN [map  |-> [s.map EXCEPT ![u] = 0],
          toks |-> [s.toks EXCEPT ![s.map[u]].disposed = @ + 1],
          sent |-> s.sent]
    ELSE s

\* Variant: _onModelRemoved deletes the map entry without disposing it.
OnModelRemoved_NoDispose(s, u) ==
    IF s.map[u] # 0
    THEN [map |-> [s.map EXCEPT ![u] = 0], toks |-> s.toks, sent |-> s.sent]
    ELSE s

\* _onModelRemoved(model)
OnModelRemoved(s, u) ==
    IF s.map[u] # 0
    THEN [map  |-> [s.map EXCEPT ![u] = 0],
          toks |-> [s.toks EXCEPT ![s.map[u]] = Dispose(s.toks[s.map[u]]).tok],
          sent |-> s.sent \o Dispose(s.toks[s.map[u]]).out]
    ELSE s

\* Variant: the catch-up handles only the first model getModels() returns.
ForEachModelAdded_FirstOnly(s, reg, ms, proxy) ==
    IF reg = <<>> THEN s
    ELSE OnModelAdded(s, Head(reg), ms[Head(reg)], proxy)

\* this._modelService.getModels().forEach(model => this._onModelAdded(model)),
\* reg being the models in the order getModels() returns them.
RECURSIVE ForEachModelAdded(_, _, _, _)
ForEachModelAdded(s, reg, ms, proxy) ==
    IF reg = <<>> THEN s
    ELSE ForEachModelAdded(OnModelAdded(s, Head(reg), ms[Head(reg)], proxy),
                           Tail(reg), ms, proxy)

\* Object i is the value of a key of this._tokenizers.  Keys are visited in
\* insertion order, which is the order of the object ids.
Registered(s, i) == s.map[s.toks[i].uri] = i

\* Variant: _killWorker replaces the map without disposing the tokenizers.
KillTokenizers_NoDispose(s) ==
    [map |-> [u \in URIs |-> 0], toks |-> s.toks, sent |-> s.sent]

\* Variant: _killWorker disposes the tokenizers but keeps the map.
KillTokenizers_KeepMap(s) ==
    [map  |-> s.map,
     toks |-> [i \in DOMAIN s.toks |->
                 IF s.map[s.toks[i].uri] = i THEN Dispose(s.toks[i]).tok ELSE s.toks[i]],
     sent |-> s.sent \o Flatten([i \in DOMAIN s.toks |->
                 IF s.map[s.toks[i].uri] = i THEN Dispose(s.toks[i]).out ELSE <<>>])]

\* _killWorker(), lines 182-185: dispose every registered tokenizer and
\* replace the map.  Lines 187-191 are in the actions below.
KillTokenizers(s) ==
    [map  |-> [u \in URIs |-> 0],
     toks |-> [i \in DOMAIN s.toks |->
                 IF Registered(s, i) THEN Dispose(s.toks[i]).tok ELSE s.toks[i]],
     sent |-> s.sent \o Flatten([i \in DOMAIN s.toks |->
                 IF Registered(s, i) THEN Dispose(s.toks[i]).out ELSE <<>>])]

\* Variant: _killWorker drops this._worker without disposing it.
KillWorkerObject_NoDispose(ws, w) == ws

\* _killWorker(), lines 187-190: this._worker.dispose()
KillWorkerObject(ws, w) ==
    IF w # 0 THEN [ws EXCEPT ![w].state = "disposed"] ELSE ws

\* Variant: the callback without the identity check.
IsCurrentWorker_NoCheck(w, cur) == TRUE

\* The check of line 167: the resolved worker is still this._worker.
IsCurrentWorker(w, cur) == cur = w

\* The orders in which getModels() can return the models of the registry.
GetModels(reg) ==
    {p \in [1..Cardinality(reg) -> reg] : Range(p) = reg}

\* The model keeps the log and the object table within the bounds.
WithinBounds(s) == Len(s.toks) <= MaxTokenizers /\ Len(s.sent) <= MaxSent

Commit(s) ==
    /\ WithinBounds(s)
    /\ _tokenizers' = s.map
    /\ tokenizers' = s.toks
    /\ sent' = s.sent

\* ------------------------------------------------------------------ Init
\* State after the TextMateService constructor (lines 115-120).  The flag of
\* line 24 is false in the source; the worker path it guards (lines 155-173)
\* is explored with the flag set either way.
Init ==
    /\ RUN_TEXTMATE_IN_WORKER \in BOOLEAN
    /\ registry = {}
    /\ models = [u \in URIs |-> NoModel]
    /\ _worker = 0
    /\ _workerProxy = 0
    /\ _tokenizers = [u \in URIs |-> 0]
    /\ tokenizers = <<>>
    /\ workers = <<>>
    /\ sent = <<>>

\* --------------------------------------------------------------- actions
\* The registry creates a model (detached, version 1) and fires onModelAdded.
ModelAdded(u, large) ==
    /\ u \notin registry
    /\ models' = [models EXCEPT ![u] =
                    [attached |-> FALSE, tooLarge |-> large, versionId |-> 1, languageId |-> 1]]
    /\ registry' = registry \cup {u}
    /\ Commit(OnModelAdded(Svc, u, models'[u], _workerProxy))
    /\ UNCHANGED <<RUN_TEXTMATE_IN_WORKER, _worker, _workerProxy, workers>>

\* The registry fires onModelRemoved and drops the model.
ModelRemoved(u) ==
    /\ u \in registry
    /\ Commit(OnModelRemoved(Svc, u))
    /\ registry' = registry \ {u}
    /\ models' = [models EXCEPT ![u] = NoModel]
    /\ UNCHANGED <<RUN_TEXTMATE_IN_WORKER, _worker, _workerProxy, workers>>

\* The model is attached to its first editor or detached from its last one.
AttachedChanged(u) ==
    /\ u \in registry
    /\ models' = [models EXCEPT ![u].attached = ~@]
    /\ Commit(FireAttached(Svc, u, models'[u]))
    /\ UNCHANGED <<RUN_TEXTMATE_IN_WORKER, registry, _worker, _workerProxy, workers>>

\* An edit batch is applied to the model.
ContentChanged(u) ==
    /\ u \in registry
    /\ u <= NumEditedURIs
    /\ models[u].versionId < MaxVersion
    /\ models' = [models EXCEPT ![u].versionId = @ + 1]
    /\ Commit(FireContent(Svc, u, models'[u]))
    /\ UNCHANGED <<RUN_TEXTMATE_IN_WORKER, registry, _worker, _workerProxy, workers>>

\* The model's language is set to another one.
LanguageChanged(u, l) ==
    /\ u \in registry
    /\ u <= NumEditedURIs
    /\ l # models[u].languageId
    /\ models' = [models EXCEPT ![u].languageId = l]
    /\ Commit(FireLanguage(Svc, u, models'[u]))
    /\ UNCHANGED <<RUN_TEXTMATE_IN_WORKER, registry, _worker, _workerProxy, workers>>

\* Variant: _onDidCreateGrammarFactory spawning without looking at the flag.
DidCreateGrammarFactory_AlwaysSpawn ==
    /\ Commit(KillTokenizers(Svc))
    /\ _workerProxy' = 0
    /\ Len(workers) < MaxWorkers
    /\ workers' = Append(KillWorkerObject(workers, _worker),
                         [state |-> "live", proxy |-> "pending"])
    /\ _worker' = Len(workers) + 1
    /\ UNCHANGED <<RUN_TEXTMATE_IN_WORKER, registry, models>>

\* _onDidCreateGrammarFactory: kill, then spawn when the flag is set.
DidCreateGrammarFactory ==
    /\ Commit(KillTokenizers(Svc))
    /\ _workerProxy' = 0
    /\ IF RUN_TEXTMATE_IN_WORKER
       THEN /\ Len(workers) < MaxWorkers
            /\ workers' = Append(KillWorkerObject(workers, _worker),
                                 [state |-> "live", proxy |-> "pending"])
            /\ _worker' = Len(workers) + 1
       ELSE /\ workers' = KillWorkerObject(workers, _worker)
            /\ _worker' = 0
    /\ UNCHANGED <<RUN_TEXTMATE_IN_WORKER, registry, models>>

\* _onDidDisposeGrammarFactory: kill.
DidDisposeGrammarFactory ==
    /\ Commit(KillTokenizers(Svc))
    /\ workers' = KillWorkerObject(workers, _worker)
    /\ _worker' = 0
    /\ _workerProxy' = 0
    /\ UNCHANGED <<RUN_TEXTMATE_IN_WORKER, registry, models>>

\* The callback of worker.getProxy().then(...), lines 166-173, for worker w.
ProxyResolved(w) ==
    /\ w \in DOMAIN workers
    /\ workers[w].proxy = "pending"
    /\ IF IsCurrentWorker(w, _worker)
       THEN /\ workers' = [workers EXCEPT ![w].proxy = "resolved"]
            /\ _workerProxy' = w
            /\ \E reg \in GetModels(registry) :
                   Commit(ForEachModelAdded(Svc, reg, models, w))
       ELSE /\ workers' = [workers EXCEPT ![w].proxy = "stale"]
            /\ UNCHANGED <<_workerProxy, _tokenizers, tokenizers, sent>>
    /\ UNCHANGED <<RUN_TEXTMATE_IN_WORKER, registry, models, _worker>>

Next ==
    \/ \E u \in URIs, large \in BOOLEAN : ModelAdded(u, large)
    \/ \E u \in URIs : ModelRemoved(u)
    \/ \E u \in URIs : AttachedChanged(u)
    \/ \E u \in URIs : ContentChanged(u)
    \/ \E u \in URIs, l \in LanguageIds : LanguageChanged(u, l)
    \/ DidCreateGrammarFactory
    \/ DidDisposeGrammarFactory
    \/ \E w \in 1..MaxWorkers : ProxyResolved(w)

Spec == Init /\ [][Next]_vars

TypeOK ==
    /\ RUN_TEXTMATE_IN_WORKER \in BOOLEAN
    /\ registry \subseteq URIs
    /\ _worker \in 0..Len(workers)
    /\ _workerProxy \in {0, _worker}
    /\ \A u \in URIs : _tokenizers[u] \in 0..Len(tokenizers)
    /\ Len(tokenizers) <= MaxTokenizers
    /\ Len(sent) <= MaxSent

\* ------------------------------------------------- reading the log "sent"
IsFor(i, w, u) == sent[i].worker = w /\ sent[i].uri = u

IsSnapshot(i, w, u) == IsFor(i, w, u) /\ sent[i].op = "acceptNewModel"

IsRemoval(i, w, u) == IsFor(i, w, u) /\ sent[i].op = "acceptRemovedModel"

IsEdit(i, w, u) == IsFor(i, w, u) /\ sent[i].op = "acceptModelChanged"

\* The registered tokenizer of uri u (only used where _tokenizers[u] # 0).
TokenizerOf(u) == tokenizers[_tokenizers[u]]

HasTokenizer(u) == _tokenizers[u] # 0

\* The calls a step adds to the log.
Appended == SubSeq(sent', Len(sent) + 1, Len(sent'))

\* The index of the last snapshot sent to worker w for uri u (0 if none).
LastSnapshot(w, u) ==
    IF \E i \in DOMAIN sent : IsSnapshot(i, w, u)
    THEN CHOOSE i \in DOMAIN sent :
            /\ IsSnapshot(i, w, u)
            /\ \A j \in DOMAIN sent : IsSnapshot(j, w, u) => j <= i
    ELSE 0

\* The version ids of the edit batches sent to w for u after index j, in order.
RECURSIVE EditVersionsFrom(_, _, _)
EditVersionsFrom(j, w, u) ==
    IF j > Len(sent) THEN <<>>
    ELSE (IF IsEdit(j, w, u) THEN <<sent[j].versionId>> ELSE <<>>)
         \o EditVersionsFrom(j + 1, w, u)

\* ==================================================================== C1
\* C1: in every reachable state, the _isSynced flag of every registered
\* tokenizer is true exactly when its model is attached to an editor and the
\* worker proxy is resolved (so it is false whenever the model is detached).
\* The code never resets the flag (lines 77-79): TLC finds this violated.
C1_SyncedIffAttachedAndProxy ==
    \A u \in URIs :
        HasTokenizer(u) =>
            (TokenizerOf(u).isSynced <=> (models[u].attached /\ _workerProxy # 0))

\* ==================================================================== C2
\* C2: for every uri and worker, every edit-batch or language-change message
\* in the log is preceded by a snapshot for that uri with no removal for that
\* uri between the snapshot and the message.  The code keeps forwarding after
\* the detach-triggered removal: TLC finds this violated.
C2_CausalOrder ==
    \A i \in DOMAIN sent :
        sent[i].op \in {"acceptModelChanged", "acceptModelLanguageChanged"} =>
            \E j \in 1..(i - 1) :
                /\ IsSnapshot(j, sent[i].worker, sent[i].uri)
                /\ \A k \in (j + 1)..(i - 1) :
                       ~IsRemoval(k, sent[i].worker, sent[i].uri)

\* ==================================================================== C3
\* C3: every detached-to-attached transition of a non-oversized model that has
\* a registered tokenizer while the proxy is live sends exactly one snapshot,
\* carrying the model's version at that moment.  On a re-attach the code
\* finds _isSynced still true and sends nothing: TLC finds this violated.
C3_SnapshotPerAttach ==
    [][\A u \in URIs :
          (/\ HasTokenizer(u)
           /\ u \in registry /\ u \in registry'
           /\ ~models[u].tooLarge
           /\ _workerProxy # 0
           /\ ~models[u].attached /\ models'[u].attached)
          => sent' = Append(sent, AcceptNewModel(_workerProxy, u, models'[u]))]_vars

\* ==================================================================== C4
\* C4: once a model with a registered tokenizer has been detached and its
\* removal sent, a content change that occurs while it is still detached
\* sends no message.  The code forwards the edit (_isSynced is still true):
\* TLC finds this violated.
C4_NoEditWhileDetached ==
    [][\A u \in URIs :
          (/\ HasTokenizer(u)
           /\ u \in registry /\ u \in registry'
           /\ ~models[u].attached /\ ~models'[u].attached
           /\ \E i \in DOMAIN sent : IsRemoval(i, TokenizerOf(u).worker, u)
           /\ models'[u].versionId # models[u].versionId)
          => sent' = sent]_vars

\* ==================================================================== C5
\* C5: while a tokenizer is synced (registered, model attached, snapshot
\* sent), the edit batches sent for its uri since its last snapshot are
\* exactly the content changes made since then, one message each, in the
\* order of the changes: their version ids run from the snapshot's version
\* plus one up to the model's current version.
C5_EditsForwardedInOrder ==
    \A u \in URIs :
        (HasTokenizer(u) /\ TokenizerOf(u).isSynced /\ models[u].attached) =>
            LET w == TokenizerOf(u).worker
                j == LastSnapshot(w, u)
            IN  /\ j # 0
                /\ EditVersionsFrom(j + 1, w, u) =
                       [k \in 1..(models[u].versionId - sent[j].versionId) |->
                            sent[j].versionId + k]

\* A synced tokenizer whose model was edited twice since the snapshot.
C5_Witness ==
    \E u \in URIs :
        /\ HasTokenizer(u) /\ TokenizerOf(u).isSynced /\ models[u].attached
        /\ LastSnapshot(TokenizerOf(u).worker, u) # 0
        /\ models[u].versionId =
               sent[LastSnapshot(TokenizerOf(u).worker, u)].versionId + 2
        /\ Len(EditVersionsFrom(1, TokenizerOf(u).worker, u)) = 2

\* ==================================================================== C6
\* C6: in every reachable state every tokenizer that has not been disposed is
\* the one registered under its uri in _tokenizers, so a uri never has two
\* live tokenizers and no registration has overwritten a live one.
C6_OneLiveTokenizerPerUri ==
    /\ \A i \in DOMAIN tokenizers :
           tokenizers[i].disposed = 0 => _tokenizers[tokenizers[i].uri] = i
    /\ \A u \in URIs :
           Cardinality({i \in DOMAIN tokenizers :
                           tokenizers[i].uri = u /\ tokenizers[i].disposed = 0}) <= 1

\* A uri whose first tokenizer was disposed and which has a second, live one.
C6_Witness ==
    \E i, j \in DOMAIN tokenizers :
        /\ i < j
        /\ tokenizers[i].uri = tokenizers[j].uri
        /\ tokenizers[i].disposed = 1
        /\ tokenizers[j].disposed = 0
        /\ _tokenizers[tokenizers[j].uri] = j

\* ==================================================================== C7
\* C7: a model flagged too large for syncing never has a tokenizer, and no
\* step taken while it is in the registry sends a message for its uri.
C7_OversizedNeverSynced ==
    [][\A u \in URIs :
          ((u \in registry /\ models[u].tooLarge) \/ (u \in registry' /\ models'[u].tooLarge))
          => /\ _tokenizers[u] = 0
             /\ _tokenizers'[u] = 0
             /\ \A i \in DOMAIN tokenizers' :
                    tokenizers'[i].uri = u => tokenizers'[i].disposed > 0
             /\ sent = SubSeq(sent', 1, Len(sent))
             /\ \A k \in DOMAIN Appended : Appended[k].uri # u]_vars

\* An oversized model is attached while the proxy is live and another model
\* is being synced.
C7_Witness ==
    \E u \in registry :
        /\ models[u].tooLarge
        /\ models[u].attached
        /\ _workerProxy # 0
        /\ \E v \in URIs : v # u /\ HasTokenizer(v) /\ TokenizerOf(v).isSynced

\* ==================================================================== C8
\* A step that runs _killWorker with a worker present.
KillStep ==
    \/ _worker # 0 /\ _worker' # _worker
    \/ _workerProxy # 0 /\ _workerProxy' = 0

\* C8: a kill disposes every tokenizer registered at that moment exactly
\* once, each sending exactly one removal for its uri and nothing else being
\* sent, and leaves the map empty, the worker disposed and the proxy handle
\* cleared; no tokenizer is ever disposed a second time.
C8_KillDisposesAllOnce ==
    [][/\ KillStep =>
            /\ \A i \in DOMAIN tokenizers :
                   IF Registered(Svc, i)
                   THEN /\ tokenizers[i].disposed = 0
                        /\ tokenizers'[i] = [tokenizers[i] EXCEPT !.disposed = 1]
                        /\ Cardinality({k \in DOMAIN Appended :
                               Appended[k] = AcceptRemovedModel(tokenizers[i].worker,
                                                                tokenizers[i].uri)}) = 1
                   ELSE tokenizers'[i] = tokenizers[i]
            /\ Len(tokenizers') = Len(tokenizers)
            /\ sent = SubSeq(sent', 1, Len(sent))
            /\ Len(Appended) = Cardinality({i \in DOMAIN tokenizers : Registered(Svc, i)})
            /\ \A u \in URIs : _tokenizers'[u] = 0
            /\ _workerProxy' = 0
            /\ _worker # 0 => workers'[_worker].state = "disposed"
       /\ \A i \in DOMAIN tokenizers' : tokenizers'[i].disposed <= 1]_vars

\* A kill has just disposed two registered tokenizers: their removals are the
\* last two calls in the log and their worker is disposed.
C8_Witness ==
    /\ _workerProxy = 0
    /\ Len(tokenizers) = 2
    /\ Len(sent) >= 2
    /\ tokenizers[1].uri # tokenizers[2].uri
    /\ \A i \in {1, 2} :
           /\ tokenizers[i].disposed = 1
           /\ tokenizers[i].uri \in registry
           /\ ~models[tokenizers[i].uri].tooLarge
           /\ workers[tokenizers[i].worker].state = "disposed"
    /\ sent[Len(sent) - 1] = AcceptRemovedModel(tokenizers[1].worker, tokenizers[1].uri)
    /\ sent[Len(sent)] = AcceptRemovedModel(tokenizers[2].worker, tokenizers[2].uri)

\* ==================================================================== C9
\* C9: when the proxy future of a worker that is no longer this._worker
\* resolves, the step creates no tokenizer, sends no message and leaves the
\* proxy handle and the uri map unchanged.
C9_StaleResolutionIgnored ==
    [][\A w \in DOMAIN workers :
          (/\ workers[w].proxy = "pending"
           /\ workers'[w].proxy # "pending"
           /\ _worker # w)
          => UNCHANGED <<_workerProxy, _tokenizers, tokenizers, sent, _worker>>]_vars

\* A stale future has resolved while a later worker's proxy is live and the
\* map is populated.
C9_Witness ==
    \E w \in DOMAIN workers :
        /\ workers[w].proxy = "stale"
        /\ _workerProxy \notin {0, w}
        /\ \E u \in URIs : HasTokenizer(u)

\* =================================================================== C10
\* C10 (as claimed): when a model whose tokenizer has sent a snapshot is
\* removed from the registry, exactly one removal for its uri has been sent
\* between that snapshot and the end of the disposal.  A detach sends a
\* removal and the later disposal sends another: TLC finds this violated.
C10_SingleRemovalPerSnapshot ==
    [][\A u \in URIs :
          (u \in registry /\ u \notin registry' /\ HasTokenizer(u) /\ TokenizerOf(u).isSynced)
          => Cardinality({k \in DOMAIN sent' :
                 /\ k > LastSnapshot(TokenizerOf(u).worker, u)
                 /\ sent'[k] = AcceptRemovedModel(TokenizerOf(u).worker, u)}) = 1]_vars

\* C10 (amended): when a model with a registered tokenizer is removed from
\* the registry, the disposal disposes that tokenizer once, unregisters it
\* and sends exactly one removal message for its uri, whether or not a
\* detach has already sent one.
C10_DisposalSendsOneRemoval ==
    [][\A u \in URIs :
          (u \in registry /\ u \notin registry' /\ HasTokenizer(u))
          => /\ sent' = Append(sent, AcceptRemovedModel(TokenizerOf(u).worker, u))
             /\ _tokenizers'[u] = 0
             /\ tokenizers' = [tokenizers EXCEPT ![_tokenizers[u]].disposed = 1]]_vars

\* A synced model was detached and then removed while its worker stayed
\* live: the detach's removal and the disposal's removal end the log.
C10_Witness ==
    \E i \in DOMAIN tokenizers :
        /\ tokenizers[i].uri \notin registry
        /\ tokenizers[i].disposed = 1
        /\ tokenizers[i].isSynced
        /\ workers[tokenizers[i].worker].state = "live"
        /\ Len(sent) >= 3
        /\ sent[Len(sent) - 1] = AcceptRemovedModel(tokenizers[i].worker, tokenizers[i].uri)
        /\ sent[Len(sent)] = AcceptRemovedModel(tokenizers[i].worker, tokenizers[i].uri)

\* =================================================================== C11
\* Tokenizer i is torn down already: it sent its snapshot and a removal for
\* its uri has been sent since (its _endSync has run), and it is not disposed.
TornDown(i) ==
    /\ tokenizers[i].isSynced
    /\ tokenizers[i].disposed = 0
    /\ LastSnapshot(tokenizers[i].worker, tokenizers[i].uri) # 0
    /\ \E k \in DOMAIN sent :
           /\ k > LastSnapshot(tokenizers[i].worker, tokenizers[i].uri)
           /\ IsRemoval(k, tokenizers[i].worker, tokenizers[i].uri)

\* The step tears tokenizer i down: dispose() runs on it, or its model goes
\* from attached to detached (which runs _endSync on a synced tokenizer).
TeardownStep(i) ==
    \/ tokenizers'[i].disposed > tokenizers[i].disposed
    \/ /\ tokenizers[i].disposed = 0
       /\ models[tokenizers[i].uri].attached
       /\ tokenizers[i].uri \in registry'
       /\ ~models'[tokenizers[i].uri].attached

\* The removals for tokenizer i's uri among the calls a step adds to the log.
RemovalsAppended(i) ==
    Cardinality({k \in DOMAIN Appended :
        Appended[k] = AcceptRemovedModel(tokenizers[i].worker, tokenizers[i].uri)})

\* C11 (as claimed): a teardown (endSync or dispose) of a tokenizer that is
\* torn down already leaves its state unchanged and sends no further message
\* for its uri.  _endSync sends a removal each time: TLC finds this violated.
C11_TeardownIdempotent ==
    [][\A i \in DOMAIN tokenizers :
          (TornDown(i) /\ TeardownStep(i))
          => /\ tokenizers'[i].isSynced = tokenizers[i].isSynced
             /\ RemovalsAppended(i) = 0]_vars

\* C11 (amended): a teardown of a tokenizer that is torn down already leaves
\* its synced flag unchanged and sends exactly one more removal for its uri.
C11_TeardownResendsRemoval ==
    [][\A i \in DOMAIN tokenizers :
          (TornDown(i) /\ TeardownStep(i))
          => /\ tokenizers'[i].isSynced = tokenizers[i].isSynced
             /\ tokenizers'[i].uri = tokenizers[i].uri
             /\ tokenizers'[i].worker = tokenizers[i].worker
             /\ RemovalsAppended(i) = 1]_vars

\* A synced tokenizer was torn down by a detach and then again by the
\* dispose() of a kill: two removals follow its only snapshot.
C11_Witness ==
    \E i \in DOMAIN tokenizers :
        /\ tokenizers[i].isSynced
        /\ tokenizers[i].disposed = 1
        /\ workers[tokenizers[i].worker].state = "disposed"
        /\ ~models[tokenizers[i].uri].attached
        /\ tokenizers[i].uri \in registry
        /\ Len(sent) = 3
        /\ IsSnapshot(1, tokenizers[i].worker, tokenizers[i].uri)
        /\ IsRemoval(2, tokenizers[i].worker, tokenizers[i].uri)
        /\ IsRemoval(3, tokenizers[i].worker, tokenizers[i].uri)

\* =================================================================== C12
\* The proxy future of worker w resolves in this step while w is this._worker.
CatchUpStep(w) ==
    /\ workers[w].proxy = "pending"
    /\ workers'[w].proxy # "pending"
    /\ _worker = w

\* C12: when the proxy of the live worker resolves, the same step sets the
\* proxy handle, registers a tokenizer for every model of the registry that is
\* attached and not oversized, and sends exactly one snapshot for each.
C12_CatchUpSnapshotsAttached ==
    [][\A w \in DOMAIN workers :
          CatchUpStep(w) =>
             /\ _workerProxy' = w
             /\ \A u \in registry :
                    (models[u].attached /\ ~models[u].tooLarge) =>
                       /\ _tokenizers'[u] \in DOMAIN tokenizers'
                       /\ _tokenizers'[u] \notin DOMAIN tokenizers
                       /\ tokenizers'[_tokenizers'[u]] =
                              [uri |-> u, worker |-> w, isSynced |-> TRUE, disposed |-> 0]
                       /\ Cardinality({k \in DOMAIN Appended :
                              Appended[k] = AcceptNewModel(w, u, models[u])}) = 1]_vars

\* Both models were attached when the proxy resolved: each has a synced
\* tokenizer of that worker and the log holds their two snapshots.
C12_Witness ==
    /\ _workerProxy # 0
    /\ workers[_workerProxy].proxy = "resolved"
    /\ registry = URIs
    /\ Len(sent) = 2
    /\ \A u \in URIs :
           /\ models[u].attached
           /\ HasTokenizer(u)
           /\ TokenizerOf(u) = [uri |-> u, worker |-> _workerProxy,
                                isSynced |-> TRUE, disposed |-> 0]
           /\ \E k \in DOMAIN sent : sent[k] = AcceptNewModel(_workerProxy, u, models[u])

\* =================================================================== C13
\* C13: with RUN_TEXTMATE_IN_WORKER false no worker is ever created: in every
\* reachable state there is no worker, the proxy handle is unresolved, the
\* uri map is empty, no tokenizer exists and no message has been sent.
C13_NoWorkerWhenDisabled ==
    ~RUN_TEXTMATE_IN_WORKER =>
        /\ _worker = 0
        /\ _workerProxy = 0
        /\ workers = <<>>
        /\ \A u \in URIs : _tokenizers[u] = 0
        /\ tokenizers = <<>>
        /\ sent = <<>>

\* The flag is off and the registry holds an attached, edited model that
\* would be synced if a worker existed.
C13_Witness ==
    /\ ~RUN_TEXTMATE_IN_WORKER
    /\ registry = URIs
    /\ \E u \in registry :
           models[u].attached /\ ~models[u].tooLarge /\ models[u].versionId = 2

\* =================================================================== C14
\* C14: in every reachable state the only worker that is created and not yet
\* disposed is this._worker, so at most one worker is live and none is live
\* when this._worker is null.
C14_AtMostOneLiveWorker ==
    /\ \A w \in DOMAIN workers : (workers[w].state = "live") <=> (w = _worker)
    /\ Cardinality({w \in DOMAIN workers : workers[w].state = "live"}) <= 1

\* A second worker is live; the first was disposed while its proxy future
\* was still pending.
C14_Witness ==
    /\ Len(workers) = 2
    /\ workers[1].state = "disposed"
    /\ workers[1].proxy = "pending"
    /\ workers[2].state = "live"
    /\ _worker = 2

\* =================================================================== C15
\* Tokenizer i is disposed in this step.
DisposedInStep(i) == tokenizers'[i].disposed > tokenizers[i].disposed

\* C15: an attached-to-detached transition of a model sends exactly one
\* removal for its uri, and nothing else, when a tokenizer with _isSynced set
\* is listening; a detach notification that reaches a tokenizer whose
\* _isSynced is not set (the constructor's call for a detached model is the
\* one that occurs) sends nothing; and every removal is sent either by such
\* a transition or by the disposal of a tokenizer of that uri.
C15_RemovalPerSyncedDetach ==
    [][/\ \A u \in URIs :
             (u \in registry /\ u \in registry' /\ models[u].attached /\ ~models'[u].attached)
             => IF HasTokenizer(u) /\ TokenizerOf(u).isSynced
                THEN Appended = <<AcceptRemovedModel(TokenizerOf(u).worker, u)>>
                ELSE Appended = <<>>
       /\ \A i \in DOMAIN tokenizers' :
             (i \notin DOMAIN tokenizers /\ ~models'[tokenizers'[i].uri].attached)
             => /\ ~tokenizers'[i].isSynced
                /\ \A k \in DOMAIN Appended : Appended[k].uri # tokenizers'[i].uri
       /\ \A k \in DOMAIN Appended :
             Appended[k].op = "acceptRemovedModel"
             => \/ /\ models[Appended[k].uri].attached
                   /\ ~models'[Appended[k].uri].attached
                   /\ Appended[k].uri \in registry'
                \/ \E i \in DOMAIN tokenizers :
                      /\ tokenizers[i].uri = Appended[k].uri
                      /\ tokenizers[i].worker = Appended[k].worker
                      /\ DisposedInStep(i)]_vars

\* A synced tokenizer's model has just been detached: the removal ends the
\* log and the tokenizer is still registered.
C15_Witness ==
    \E u \in registry :
        /\ HasTokenizer(u)
        /\ TokenizerOf(u).isSynced
        /\ TokenizerOf(u).disposed = 0
        /\ ~models[u].attached
        /\ Len(sent) = 2
        /\ sent[1] = AcceptNewModel(TokenizerOf(u).worker, u, models[u])
        /\ sent[2] = AcceptRemovedModel(TokenizerOf(u).worker, u)

\* =================================================================== C16
\* C16: for every worker and uri, between any two snapshots sent to that
\* worker for that uri a removal for that uri was sent to it.
C16_NoSnapshotTwiceWithoutRemoval ==
    \A i, k \in DOMAIN sent :
        (/\ i < k
         /\ sent[i].op = "acceptNewModel"
         /\ IsSnapshot(k, sent[i].worker, sent[i].uri))
        => \E j \in (i + 1)..(k - 1) : IsRemoval(j, sent[i].worker, sent[i].uri)

\* A uri was snapshotted, removed and snapshotted again on the same worker.
C16_Witness ==
    \E w \in DOMAIN workers, u \in URIs :
        /\ Len(sent) = 3
        /\ IsSnapshot(1, w, u)
        /\ IsRemoval(2, w, u)
        /\ IsSnapshot(3, w, u)

\* =================================================================== C17
\* No tokenizer is registered and none has listeners left.
NoTokenizerLive ==
    /\ \A u \in URIs : _tokenizers[u] = 0
    /\ \A i \in DOMAIN tokenizers : tokenizers[i].disposed > 0

\* C17: whenever this._workerProxy is null the uri map is empty, and a step
\* that starts and ends with the proxy null (a buffer event, or a grammar-set
\* event while the proxy is pending or absent) constructs no tokenizer and
\* sends no message.
C17_NothingWithoutProxy ==
    [][/\ _workerProxy = 0 => NoTokenizerLive
       /\ _workerProxy' = 0 => NoTokenizerLive'
       /\ (_workerProxy = 0 /\ _workerProxy' = 0)
          => /\ sent' = sent
             /\ tokenizers' = tokenizers]_vars

\* A worker's proxy is still pending while the registry holds an attached,
\* edited, non-oversized model: nothing was registered or sent.
C17_Witness ==
    /\ _worker # 0
    /\ workers[_worker].proxy = "pending"
    /\ _workerProxy = 0
    /\ sent = <<>>
    /\ tokenizers = <<>>
    /\ \E u \in registry :
           models[u].attached /\ ~models[u].tooLarge /\ models[u].versionId = 2

\* =================================================================== C18
\* C18: a language change of a model sends exactly one language-change
\* message (uri, new language id) when its tokenizer is synced and the model
\* attached, and none otherwise, in particular none while the model is
\* detached after having been synced.  The code finds _isSynced still set
\* after the detach and forwards the change: TLC finds this violated.
C18_LanguageOnlyWhileSynced ==
    [][\A u \in URIs :
          (u \in registry /\ u \in registry' /\ models'[u].languageId # models[u].languageId)
          => IF HasTokenizer(u) /\ TokenizerOf(u).isSynced /\ models[u].attached
             THEN Appended = <<AcceptModelLanguageChanged(TokenizerOf(u).worker, u, models'[u])>>
             ELSE Appended = <<>>]_vars

\* =================================================================== C19
\* C19: every call a handler makes goes to the proxy of a worker that is not
\* disposed, and every registered tokenizer holds the proxy of this._worker.
\* A handler disposes a worker only as its last effect (lines 187-190 follow
\* the loop of lines 182-184), so the worker's state when the handler starts
\* is its state at each of the handler's calls.
C19_NoCallOnDisposedWorker ==
    [][/\ \A k \in DOMAIN Appended :
             /\ Appended[k].worker \in DOMAIN workers
             /\ workers[Appended[k].worker].state = "live"
       /\ \A u \in URIs :
             HasTokenizer(u) =>
                /\ TokenizerOf(u).worker = _workerProxy
                /\ _workerProxy = _worker
                /\ workers[_worker].state = "live"]_vars

\* A first worker received the removal of a kill and is disposed; a later
\* worker's proxy is live and has been sent a snapshot.
C19_Witness ==
    \E w \in DOMAIN workers, u \in URIs :
        /\ workers[w].state = "disposed"
        /\ \E k \in DOMAIN sent : IsRemoval(k, w, u)
        /\ _workerProxy \notin {0, w}
        /\ \E k \in DOMAIN sent, v \in URIs : IsSnapshot(k, _workerProxy, v)

\* =================================================================== C20
\* The snapshots for uri u that a step sends to worker w.
SnapshotsAppended(w, u) ==
    Cardinality({k \in DOMAIN Appended :
        /\ Appended[k].op = "acceptNewModel"
        /\ Appended[k].worker = w
        /\ Appended[k].uri = u})

\* The tokenizers of worker w and uri u whose _isSynced flag a step turns
\* true (tokenizers constructed in the step included).
TurnedSynced(w, u) ==
    {i \in DOMAIN tokenizers' :
        /\ tokenizers'[i].worker = w
        /\ tokenizers'[i].uri = u
        /\ tokenizers'[i].isSynced
        /\ (i \in DOMAIN tokenizers => ~tokenizers[i].isSynced)}

\* C20: a tokenizer's _isSynced flag never goes back to false, and the
\* snapshots a step sends are one for each tokenizer whose flag the step
\* turns true.  So a tokenizer sends at most one snapshot in its life.
C20_SyncedFlagMonotone ==
    [][/\ \A i \in DOMAIN tokenizers :
             /\ i \in DOMAIN tokenizers'
             /\ tokenizers[i].isSynced => tokenizers'[i].isSynced
       /\ \A w \in 0..Len(workers), u \in URIs :
             SnapshotsAppended(w, u) = Cardinality(TurnedSynced(w, u))]_vars

\* A synced tokenizer's model was detached and attached again: the flag
\* stayed set and the log holds its single snapshot and the removal.
C20_Witness ==
    \E u \in registry :
        /\ HasTokenizer(u)
        /\ TokenizerOf(u).isSynced
        /\ models[u].attached
        /\ Len(sent) = 2
        /\ IsSnapshot(1, TokenizerOf(u).worker, u)
        /\ IsRemoval(2, TokenizerOf(u).worker, u)
====
